---- MODULE Spec2Model ----
(***************************************************************************)
(* Model of the JSON Schema -> GraphQL core of graphql-mesh:               *)
(*   - getOperationMetadata / isPubSubOperationConfig                      *)
(*   - buildFinalJSONSchema (the schema synthesizer and its pipeline)      *)
(*   - JSONSchemaLoader and JsonSchemaHandler.getMeshSource                *)
(*   - addExecutionLogicToComposer (the execution binder)                  *)
(*   - the HTTP resolver and the pubsub subscribe/resolve pair it attaches *)
(*                                                                         *)
(* JavaScript objects are functions whose DOMAIN is the set of keys that   *)
(* are present; `undefined` and `null` are the strings Undefined and Null. *)
(***************************************************************************)
EXTENDS Integers, Sequences, FiniteSets, TLC

VARIABLES
    entry,           \* which entry point runs: "JSONSchemaLoader" or "getMeshSource"
    options,         \* JSONSchemaLoaderOptions (operations, baseUrl, operationHeaders, ...)
    pc,              \* position of the schema-build call
    idx,             \* index of the operation the synthesizer loop is at
    finalJsonSchema, \* the composite schema under construction / the bundled schema
    pipelineCalls,   \* the library calls made so far, in order, each with its outcome
    store,           \* the handler's jsonSchema store ("jsonSchema.json")
    composer,        \* the SchemaComposer: root type name -> field name -> field
    unhandled,       \* rejection of the un-awaited addExecutionLogicToComposer promise
    result,          \* what the caller of the build call got
    metadata,        \* last value returned by getOperationMetadata
    call,            \* the resolver invocation in progress
    request,         \* the request built by the HTTP resolver (url query, RequestInit)
    response,        \* the response the fetch gave
    fetchCount,      \* number of fetches issued by the invocation
    outcome          \* what the resolver / subscribe invocation gave

vars == <<entry, options, pc, idx, finalJsonSchema, pipelineCalls, store, composer,
          unhandled, result, metadata, call, request, response, fetchCount, outcome>>

buildVars == <<entry, options, pc, idx, finalJsonSchema, pipelineCalls, store, composer,
               unhandled, result>>
callVars == <<call, request, response, fetchCount, outcome>>

-----------------------------------------------------------------------------
(* JavaScript values *)

Undefined == "<undefined>"
Null == "<null>"
None == [kind |-> "none"]

\* obj.key, giving undefined for a key that is absent
Get(obj, key) == IF key \in DOMAIN obj THEN obj[key] ELSE Undefined

\* JavaScript truthiness of a string-or-undefined value
Truthy(v) == v \notin {Undefined, Null, ""}

\* an optional key: absent, or present with one of vals
Opt(key, vals) == {<<>>} \cup {[k \in {key} |-> v] : v \in vals}

\* String.prototype.toLowerCase on the type names the model uses
ToLowerCase(s) ==
    CASE s = "Query" -> "query"
      [] s = "Mutation" -> "mutation"
      [] s = "MUTATION" -> "mutation"
      [] s = "Subscription" -> "subscription"
      [] s = "Content-Type" -> "content-type"
      [] s = "CONTENT-TYPE" -> "content-type"
      [] s = "Accept" -> "accept"
      [] s = "Authorization" -> "authorization"
      [] OTHER -> s

-----------------------------------------------------------------------------
(* Operation metadata *)

isPubSubOperationConfig(operationConfig) ==
    "pubSubTopic" \in DOMAIN operationConfig

getOperationMetadata(operationConfig) ==
    IF isPubSubOperationConfig(operationConfig)
    THEN [httpMethod |-> Null,
          operationType |-> "subscription",
          rootTypeName |-> "Subscription",
          fieldName |-> operationConfig.field]
    ELSE LET method == Get(operationConfig, "method")
             operationType == ToLowerCase(operationConfig.type)
             httpMethod == IF ~Truthy(method)
                           THEN (IF operationType = "mutation" THEN "POST" ELSE "GET")
                           ELSE method
             \* lines 256-260: a first guess that the next line always overwrites
             firstGuess == IF httpMethod = "GET" THEN "Query" ELSE Undefined
             rootTypeName == IF operationType = "query" THEN "Query" ELSE "Mutation"
         IN  [httpMethod |-> httpMethod,
              operationType |-> operationType,
              rootTypeName |-> rootTypeName,
              fieldName |-> operationConfig.field]

-----------------------------------------------------------------------------
(* Samples and schema inference (readFileOrUrl, toJsonSchema) *)

JNumber == [kind |-> "number"]
JString == [kind |-> "string"]
JObject(props) == [kind |-> "object", props |-> props]

\* what each sample file holds when it can be read
SampleContent(sample) ==
    IF sample = "user.json" THEN JObject([id |-> JNumber, name |-> JString])
    ELSE JString

\* e.message of a failed read
ReadFailures == {"ENOENT", "EACCES"}

\* the outcomes of `await readFileOrUrl(sample, { cwd })`
ReadFileOrUrl(sample) ==
    {[ok |-> TRUE, value |-> SampleContent(sample)]}
        \cup {[ok |-> FALSE, message |-> m] : m \in ReadFailures}

RECURSIVE toJsonSchema(_)
toJsonSchema(value) ==
    CASE value.kind = "number" -> [type |-> "integer"]
      [] value.kind = "string" -> [type |-> "string"]
      [] value.kind = "object" ->
            [type |-> "object",
             properties |-> [k \in DOMAIN value.props |-> toJsonSchema(value.props[k])],
             additionalProperties |-> FALSE]

\* generatedSchema.title = ...
WithTitle(schema, title) == [k \in {"title"} |-> title] @@ schema

Error(message) == [kind |-> "Error", message |-> message]

-----------------------------------------------------------------------------
(* buildFinalJSONSchema: the synthesizer loop *)

EmptySchema ==
    [type |-> "object", title |-> "_schema", properties |-> <<>>, required |-> <<"query">>]

\* obj[key] = value
Put(obj, key, value) == [k \in {key} |-> value] @@ obj

\* finalJsonSchema.properties[name] = finalJsonSchema.properties[name] || { ... }
EnsureRoot(schema, name, title) ==
    IF name \in DOMAIN schema.properties
    THEN schema
    ELSE [schema EXCEPT !.properties =
            Put(@, name, [type |-> "object", title |-> title, properties |-> <<>>])]

SetField(schema, name, fieldName, fieldSchema) ==
    [schema EXCEPT !.properties[name].properties = Put(@, fieldName, fieldSchema)]

\* a response side that looks at the sample before the schema
ResponseSide_sampleFirst(operationConfig, schema, read) ==
    LET meta == getOperationMetadata(operationConfig)
        rooted == EnsureRoot(schema, meta.operationType, meta.rootTypeName)
        title == Get(operationConfig, "responseTypeName")
    IN  IF Truthy(Get(operationConfig, "responseSample"))
        THEN IF read.ok
             THEN [ok |-> TRUE, reads |-> 1,
                   schema |-> SetField(rooted, meta.operationType, meta.fieldName,
                                       WithTitle(toJsonSchema(read.value), title))]
             ELSE [ok |-> FALSE, reads |-> 1, schema |-> rooted,
                   error |-> Error(<<"responseSample - ", read.message>>)]
        ELSE IF Truthy(Get(operationConfig, "responseSchema"))
        THEN [ok |-> TRUE, reads |-> 0,
              schema |-> SetField(rooted, meta.operationType, meta.fieldName,
                                  [ref |-> operationConfig.responseSchema])]
        ELSE [ok |-> TRUE, reads |-> 0,
              schema |-> SetField(rooted, meta.operationType, meta.fieldName,
                                  WithTitle([type |-> "object"], title))]

\* the response side of one loop iteration (lines 288-318); read is the outcome the
\* sample read has if it is made
ResponseSide(operationConfig, schema, read) ==
    LET meta == getOperationMetadata(operationConfig)
        rooted == EnsureRoot(schema, meta.operationType, meta.rootTypeName)
        title == Get(operationConfig, "responseTypeName")
    IN  IF Truthy(Get(operationConfig, "responseSchema"))
        THEN [ok |-> TRUE, reads |-> 0,
              schema |-> SetField(rooted, meta.operationType, meta.fieldName,
                                  [ref |-> operationConfig.responseSchema])]
        ELSE IF Truthy(Get(operationConfig, "responseSample"))
        THEN IF read.ok
             THEN [ok |-> TRUE, reads |-> 1,
                   schema |-> SetField(rooted, meta.operationType, meta.fieldName,
                                       WithTitle(toJsonSchema(read.value), title))]
             ELSE [ok |-> FALSE, reads |-> 1, schema |-> rooted,
                   error |-> Error(<<"responseSample - ", read.message>>)]
        ELSE [ok |-> TRUE, reads |-> 0,
              schema |-> SetField(rooted, meta.operationType, meta.fieldName,
                                  WithTitle([type |-> "object"], title))]

\* name + 'Input'
PlusInput(name) ==
    CASE name = "query" -> "queryInput"
      [] name = "mutation" -> "mutationInput"
      [] name = "subscription" -> "subscriptionInput"
      [] name = "Query" -> "QueryInput"
      [] name = "Mutation" -> "MutationInput"
      [] name = "Subscription" -> "SubscriptionInput"

\* the request side of one loop iteration (lines 320-352)
RequestSide(operationConfig, schema, read) ==
    LET meta == getOperationMetadata(operationConfig)
        rootTypeInputPropertyName == PlusInput(meta.operationType)
        rootInputTypeName == PlusInput(meta.rootTypeName)
        rooted == EnsureRoot(schema, rootTypeInputPropertyName, rootInputTypeName)
        title == Get(operationConfig, "requestTypeName")
    IN  IF Truthy(Get(operationConfig, "requestSchema"))
        THEN [ok |-> TRUE, reads |-> 0,
              schema |-> SetField(rooted, rootTypeInputPropertyName, meta.fieldName,
                                  [ref |-> operationConfig.requestSchema])]
        ELSE IF Truthy(Get(operationConfig, "requestSample"))
        THEN IF read.ok
             THEN [ok |-> TRUE, reads |-> 1,
                   schema |-> SetField(rooted, rootTypeInputPropertyName, meta.fieldName,
                                       WithTitle(toJsonSchema(read.value), title))]
             ELSE [ok |-> FALSE, reads |-> 1, schema |-> rooted,
                   error |-> Error(<<"requestSample:", operationConfig.requestSample,
                                     " cannot be read - ", read.message>>)]
        ELSE [ok |-> TRUE, reads |-> 0, schema |-> rooted]

-----------------------------------------------------------------------------
(* The schema-build call: JSONSchemaLoader and JsonSchemaHandler.getMeshSource *)

\* an entry of the call log
Called(name, ok) == [call |-> name, threw |-> ~ok]

\* a rejected build call
Reject(error) ==
    /\ pc' = "failed"
    /\ result' = [kind |-> "rejected", error |-> error]

\* JSONSchemaLoader, line 67: options.finalSchema || (await buildFinalJSONSchema(options))
StartLoader ==
    /\ pc = "start"
    /\ entry = "JSONSchemaLoader"
    /\ IF "finalSchema" \in DOMAIN options
       THEN /\ finalJsonSchema' = options.finalSchema
            /\ pc' = "bundled"
       ELSE /\ finalJsonSchema' = EmptySchema
            /\ pc' = "synthesize"
    /\ idx' = 1
    /\ UNCHANGED <<entry, options, pipelineCalls, store, composer, unhandled, result,
                   metadata, callVars>>

\* getMeshSource, line 44: this.jsonSchema.getWithSet(() => buildFinalJSONSchema(options))
StartHandler ==
    /\ pc = "start"
    /\ entry = "getMeshSource"
    /\ finalJsonSchema' = EmptySchema
    /\ pc' = "synthesize"
    /\ idx' = 1
    /\ UNCHANGED <<entry, options, pipelineCalls, store, composer, unhandled, result,
                   metadata, callVars>>

\* a loop that notes a failed read and goes on to the next operation
SynthesizeOperation_continueOnFailure ==
    /\ pc = "synthesize"
    /\ idx <= Len(options.operations)
    /\ LET operationConfig == options.operations[idx]
       IN  \E respRead \in ReadFileOrUrl(Get(operationConfig, "responseSample")),
              reqRead \in ReadFileOrUrl(Get(operationConfig, "requestSample")) :
             LET resp == ResponseSide(operationConfig, finalJsonSchema, respRead)
                 req == RequestSide(operationConfig, resp.schema, reqRead)
                 respCalls == [i \in 1..resp.reads |-> Called("readFileOrUrl", resp.ok)]
                 reqCalls == [i \in 1..(IF resp.ok THEN req.reads ELSE 0)
                                |-> Called("readFileOrUrl", req.ok)]
             IN  /\ pipelineCalls' = pipelineCalls \o respCalls \o reqCalls
                 /\ IF ~resp.ok
                    THEN /\ UNCHANGED <<pc, result>>
                         /\ idx' = idx + 1
                         /\ finalJsonSchema' = resp.schema
                    ELSE IF ~req.ok
                    THEN /\ UNCHANGED <<pc, result>>
                         /\ idx' = idx + 1
                         /\ finalJsonSchema' = req.schema
                    ELSE /\ finalJsonSchema' = req.schema
                         /\ idx' = idx + 1
                         /\ UNCHANGED <<pc, result>>
    /\ UNCHANGED <<entry, options, store, composer, unhandled, metadata, callVars>>

\* one iteration of the loop of buildFinalJSONSchema (lines 278-353)
SynthesizeOperation ==
    /\ pc = "synthesize"
    /\ idx <= Len(options.operations)
    /\ LET operationConfig == options.operations[idx]
       IN  \E respRead \in ReadFileOrUrl(Get(operationConfig, "responseSample")),
              reqRead \in ReadFileOrUrl(Get(operationConfig, "requestSample")) :
             LET resp == ResponseSide(operationConfig, finalJsonSchema, respRead)
                 req == RequestSide(operationConfig, resp.schema, reqRead)
                 respCalls == [i \in 1..resp.reads |-> Called("readFileOrUrl", resp.ok)]
                 reqCalls == [i \in 1..(IF resp.ok THEN req.reads ELSE 0)
                                |-> Called("readFileOrUrl", req.ok)]
             IN  /\ pipelineCalls' = pipelineCalls \o respCalls \o reqCalls
                 /\ IF ~resp.ok
                    THEN /\ Reject(resp.error)
                         /\ UNCHANGED <<idx>>
                         /\ finalJsonSchema' = resp.schema
                    ELSE IF ~req.ok
                    THEN /\ Reject(req.error)
                         /\ UNCHANGED <<idx>>
                         /\ finalJsonSchema' = req.schema
                    ELSE /\ finalJsonSchema' = req.schema
                         /\ idx' = idx + 1
                         /\ UNCHANGED <<pc, result>>
    /\ UNCHANGED <<entry, options, store, composer, unhandled, metadata, callVars>>

\* the end of the loop (line 354)
SynthesisDone ==
    /\ pc = "synthesize"
    /\ idx > Len(options.operations)
    /\ pc' = "dereference"
    /\ UNCHANGED <<entry, options, idx, finalJsonSchema, pipelineCalls, store, composer,
                   unhandled, result, metadata, callVars>>

\* one awaited library step of the pipeline: it gives its result or throws
LibraryStep(at, name, next) ==
    /\ pc = at
    /\ \E ok \in BOOLEAN :
         /\ pipelineCalls' = Append(pipelineCalls, Called(name, ok))
         /\ IF ok
            THEN /\ pc' = next
                 /\ finalJsonSchema' = [by |-> name, of |-> finalJsonSchema]
                 /\ UNCHANGED result
            ELSE /\ Reject(Error(<<name, " failed">>))
                 /\ UNCHANGED finalJsonSchema

\* buildFinalJSONSchema, lines 355-357
Dereference ==
    /\ LibraryStep("dereference", "dereferenceObject", "heal")
    /\ UNCHANGED <<entry, options, idx, store, composer, unhandled, metadata, callVars>>

\* buildFinalJSONSchema, line 359
Heal ==
    /\ LibraryStep("heal", "healJSONSchema", "reference")
    /\ UNCHANGED <<entry, options, idx, store, composer, unhandled, metadata, callVars>>

\* buildFinalJSONSchema, lines 361-362; under getMeshSource the store's getWithSet
\* then keeps the value the setter gave
Reference ==
    /\ LibraryStep("reference", "referenceJSONSchema", "bundled")
    /\ store' = IF entry = "getMeshSource" /\ pc' = "bundled"
                THEN finalJsonSchema'
                ELSE store
    /\ UNCHANGED <<entry, options, idx, composer, unhandled, metadata, callVars>>

-----------------------------------------------------------------------------
(* Strings with placeholders (stringInterpolator, parseInterpolationStrings) *)

\* A string is a sequence of tokens; a template is a sequence of parts, each a
\* literal token or a placeholder with an optional default.
Lit(token) == [part |-> "lit", token |-> token]
Var(name) == [part |-> "var", name |-> name, default |-> ""]
VarDefault(name, default) == [part |-> "var", name |-> name, default |-> default]

\* the value of an absent (undefined) string
UndefinedString == <<Lit(Undefined)>>

StringAt(obj, key) == IF key \in DOMAIN obj THEN obj[key] ELSE UndefinedString

\* A headers object is the sequence of its [name, value] entries in insertion order.
Header(name, value) == [name |-> name, value |-> value]

HeadersAt(obj, key) == IF key \in DOMAIN obj THEN obj[key] ELSE <<>>

\* Object.values(obj[key] || {})
Values(obj, key) == {HeadersAt(obj, key)[i].value : i \in DOMAIN HeadersAt(obj, key)}

\* the placeholder names of a template
PlaceholderNames(template) ==
    {template[i].name : i \in {j \in DOMAIN template : template[j].part = "var"}}

\* tokens of a string, empty tokens dropped
RECURSIVE Compact(_)
Compact(tokens) ==
    IF tokens = <<>> THEN <<>>
    ELSE IF Head(tokens) = "" THEN Compact(Tail(tokens))
    ELSE <<Head(tokens)>> \o Compact(Tail(tokens))

\* stringInterpolator.parse(template, data): a bound placeholder gives its value, an
\* unbound one its default, and the empty string without a default
Interpolate(template, data) ==
    Compact([i \in DOMAIN template |->
                IF template[i].part = "lit" THEN template[i].token
                ELSE IF template[i].name \in DOMAIN data THEN data[template[i].name]
                ELSE template[i].default])

\* parseInterpolationStrings(strings, argTypeMap).args: one argument per distinct
\* placeholder name, typed by argTypeMap when it names the placeholder
parseInterpolationStrings(strings, argTypeMap) ==
    LET names == UNION {PlaceholderNames(t) : t \in strings}
    IN  [n \in names |->
            [type |-> IF n \in DOMAIN argTypeMap THEN argTypeMap[n] ELSE "ID"]]

-----------------------------------------------------------------------------
(* addExecutionLogicToComposer *)

RootTypeNames == {"Query", "Mutation", "Subscription"}

NoClosure == [kind |-> "none"]

\* rootTypeComposer.addFieldArgs(fieldName, newArgs): setFieldArg for every new name
addFieldArgs(schemaComposer, rootTypeName, fieldName, newArgs) ==
    [schemaComposer EXCEPT ![rootTypeName][fieldName].args = newArgs @@ @]

\* the pubsub binding (lines 100-111)
BindPubSub(schemaComposer, meta, operationConfig) ==
    [schemaComposer EXCEPT
        ![meta.rootTypeName][meta.fieldName].subscribe =
            [kind |-> "pubsub", operationConfig |-> operationConfig],
        ![meta.rootTypeName][meta.fieldName].resolve =
            [kind |-> "pubsub", operationConfig |-> operationConfig]]

\* the HTTP binding (lines 113-114: the closure keeps the operation and its metadata)
BindHTTP(schemaComposer, meta, operationConfig) ==
    [schemaComposer EXCEPT
        ![meta.rootTypeName][meta.fieldName].resolve =
            [kind |-> "http", operationConfig |-> operationConfig,
             httpMethod |-> meta.httpMethod]]

\* the strings the planner scans for one operation (lines 93, 111, 220-221)
InterpolationStrings(opts, operationConfig) ==
    Values(opts, "operationHeaders") \cup {StringAt(opts, "baseUrl")}
        \cup (IF isPubSubOperationConfig(operationConfig)
              THEN {StringAt(operationConfig, "pubsubTopic")}
              ELSE IF "path" \in DOMAIN operationConfig
              THEN Values(operationConfig, "headers") \cup {operationConfig.path}
              ELSE {})

\* the body of the loop for one operation whose field exists (lines 99-224)
AttachOperation(schemaComposer, opts, operationConfig) ==
    LET meta == getOperationMetadata(operationConfig)
        bound == IF isPubSubOperationConfig(operationConfig)
                 THEN BindPubSub(schemaComposer, meta, operationConfig)
                 ELSE IF "path" \in DOMAIN operationConfig
                 THEN BindHTTP(schemaComposer, meta, operationConfig)
                 ELSE schemaComposer
        globalArgs == parseInterpolationStrings(
                          InterpolationStrings(opts, operationConfig),
                          IF "argTypeMap" \in DOMAIN operationConfig
                          THEN operationConfig.argTypeMap ELSE <<>>)
    IN  addFieldArgs(bound, meta.rootTypeName, meta.fieldName, globalArgs)

\* the loop (lines 89-225) from operation k on: getField throws for a field the
\* root type does not have, which ends the loop with the earlier operations bound
RECURSIVE AttachFrom(_, _, _)
AttachFrom(schemaComposer, opts, k) ==
    IF k > Len(opts.operations)
    THEN [composer |-> schemaComposer, error |-> None]
    ELSE LET operationConfig == opts.operations[k]
             meta == getOperationMetadata(operationConfig)
         IN  IF meta.fieldName \notin DOMAIN schemaComposer[meta.rootTypeName]
             THEN [composer |-> schemaComposer,
                   error |-> Error(<<"Cannot get field ", meta.fieldName>>)]
             ELSE AttachFrom(AttachOperation(schemaComposer, opts, operationConfig),
                             opts, k + 1)

-----------------------------------------------------------------------------
(* getComposerFromJSONSchema: the fields the composer holds before binding *)

ObjectType(fields) == [kind |-> "object", fields |-> fields]
ScalarType == [kind |-> "scalar", fields |-> {}]
ListType == [kind |-> "list", fields |-> {}]

\* isScalarType(type)
isScalarType(type) == type.kind = "scalar"

\* 'getFields' in type && name in type.getFields(): only an object type has getFields
DeclaresField(type, name) == type.kind = "object" /\ name \in type.fields

\* the GraphQL type of the schema a $ref names
ReferencedType(ref) ==
    CASE ref = "WithErrors.json" -> ObjectType({"errors", "data"})
      [] ref = "WithError.json" -> ObjectType({"error", "data"})
      [] ref = "Text.json" -> ScalarType
      [] ref = "Users.json" -> ListType
      [] OTHER -> ObjectType({"id", "name"})

\* the GraphQL type of an inferred schema
InferredType(value) ==
    IF value.kind = "object" THEN ObjectType(DOMAIN value.props) ELSE ScalarType

\* field.type of the operation's field
ReturnType(operationConfig) ==
    IF Truthy(Get(operationConfig, "responseSchema"))
    THEN ReferencedType(operationConfig.responseSchema)
    ELSE IF Truthy(Get(operationConfig, "responseSample"))
    THEN InferredType(SampleContent(operationConfig.responseSample))
    ELSE ObjectType({})

\* the arguments the field has before the planner runs: `input` when the operation
\* has a request side
BaseArgs(operationConfig) ==
    IF Truthy(Get(operationConfig, "requestSchema"))
          \/ Truthy(Get(operationConfig, "requestSample"))
    THEN [input |-> [type |-> PlusInput(getOperationMetadata(operationConfig).rootTypeName)]]
    ELSE <<>>

ComposedField(operationConfig) ==
    [type |-> ReturnType(operationConfig),
     args |-> BaseArgs(operationConfig),
     resolve |-> NoClosure,
     subscribe |-> NoClosure]

\* the composer: every operation outside `missing` has its field on its root type
ComposerFor(operations, missing) ==
    [r \in RootTypeNames |->
        LET here == {i \in DOMAIN operations \ missing :
                        getOperationMetadata(operations[i]).rootTypeName = r}
        IN  [f \in {operations[i].field : i \in here} |->
                ComposedField(operations[CHOOSE i \in here : operations[i].field = f])]]

EmptyComposer == [r \in RootTypeNames |-> <<>>]

-----------------------------------------------------------------------------
(* The schema-build call, continued *)

\* JSONSchemaLoader lines 69-71, getMeshSource lines 46-48
DereferenceBundled ==
    /\ LibraryStep("bundled", "dereferenceObject", "compose")
    /\ UNCHANGED <<entry, options, idx, store, composer, unhandled, metadata, callVars>>

\* JSONSchemaLoader lines 73-78, getMeshSource lines 50-55
GetComposer ==
    /\ pc = "compose"
    /\ \/ /\ \E missing \in SUBSET DOMAIN options.operations :
                composer' = ComposerFor(options.operations, missing)
          /\ pipelineCalls' = Append(pipelineCalls, Called("getComposerFromJSONSchema", TRUE))
          /\ pc' = "attach"
          /\ UNCHANGED result
       \/ /\ Reject(Error(<<"getComposerFromJSONSchema", " failed">>))
          /\ pipelineCalls' = Append(pipelineCalls, Called("getComposerFromJSONSchema", FALSE))
          /\ UNCHANGED composer
    /\ UNCHANGED <<entry, options, idx, finalJsonSchema, store, unhandled, metadata,
                   callVars>>

\* JSONSchemaLoader line 80, getMeshSource line 57: the async binder is called and its
\* promise dropped; its body has no await, so it has run to its end, or to its throw,
\* when the call returns
AddExecutionLogic ==
    /\ pc = "attach"
    /\ LET bound == AttachFrom(composer, options, 1)
       IN  /\ composer' = bound.composer
           /\ unhandled' = bound.error
    /\ pc' = "buildSchema"
    /\ UNCHANGED <<entry, options, idx, finalJsonSchema, pipelineCalls, store, result,
                   metadata, callVars>>

\* JSONSchemaLoader line 82, getMeshSource lines 59-61
BuildSchema ==
    /\ pc = "buildSchema"
    /\ \/ /\ pc' = "done"
          /\ result' = [kind |-> "schema", schema |-> composer]
          /\ pipelineCalls' = Append(pipelineCalls, Called("buildSchema", TRUE))
       \/ /\ Reject(Error(<<"buildSchema", " failed">>))
          /\ pipelineCalls' = Append(pipelineCalls, Called("buildSchema", FALSE))
    /\ UNCHANGED <<entry, options, idx, finalJsonSchema, store, composer, unhandled,
                   metadata, callVars>>

\* getOperationMetadata applied to the first operation
GetOperationMetadata ==
    /\ pc = "start"
    /\ metadata = None
    /\ metadata' = getOperationMetadata(options.operations[1])
    /\ UNCHANGED <<buildVars, callVars>>

-----------------------------------------------------------------------------
(* Operation lists *)

MaxOps == 2

FieldName(i) ==
    CASE i = 1 -> "getUser" [] i = 2 -> "addUser" [] i = 3 -> "onUser" [] OTHER -> "other"

\* lists of 1..MaxOps operations of the given shapes, the i-th with the i-th field name
OperationLists(shapes) ==
    UNION {{[i \in 1..n |-> [field |-> FieldName(i)] @@ shape[i]] :
                shape \in [1..n -> shapes]} : n \in 1..MaxOps}

Merge(A, B) == {a @@ b : a \in A, b \in B}

ResponseShapes ==
    Merge([responseTypeName : {"User"}],
          Merge(Opt("responseSchema", {"User.json"}), Opt("responseSample", {"user.json"})))

\* queries with no request side or a sampled one, mutations with none or a schema
BuildShapes ==
    Merge(ResponseShapes,
          Merge({[type |-> "query", path |-> <<Lit("/users")>>,
                  requestTypeName |-> "UserFilter"]},
                Opt("requestSample", {"name.txt"}))
            \cup Merge({[type |-> "mutation", path |-> <<Lit("/users")>>,
                         requestTypeName |-> "UserInput"]},
                       Opt("requestSchema", {"UserInput.json"})))

IdleCall ==
    /\ call = None
    /\ request = None
    /\ response = None
    /\ fetchCount = 0
    /\ outcome = None

InitBuild ==
    /\ entry \in {"JSONSchemaLoader", "getMeshSource"}
    /\ \E operations \in OperationLists(BuildShapes) :
         options \in
            {[operations |-> operations]}
               \cup (IF entry = "JSONSchemaLoader"
                     THEN {[operations |-> operations,
                            finalSchema |-> [by |-> "referenceJSONSchema", of |-> EmptySchema]]}
                     ELSE {})
    /\ pc = "start"
    /\ idx = 0
    /\ finalJsonSchema = None
    /\ pipelineCalls = <<>>
    /\ store = None
    /\ composer = EmptyComposer
    /\ unhandled = None
    /\ result = None
    /\ metadata = None
    /\ IdleCall

NextBuild ==
    \/ StartLoader
    \/ StartHandler
    \/ SynthesizeOperation
    \/ SynthesisDone
    \/ Dereference
    \/ Heal
    \/ Reference
    \/ DereferenceBundled
    \/ GetComposer
    \/ AddExecutionLogic
    \/ BuildSchema

SpecBuild == InitBuild /\ [][NextBuild]_vars

-----------------------------------------------------------------------------
(* The HTTP resolver the binder attaches (lines 114-219): JSON values *)

\* JSON values carry their type; an object is its fields, an array its items
JNull == [t |-> "null"]
JText(s) == [t |-> "string", s |-> s]
JArray(items) == [t |-> "array", items |-> items]
JRecord(fields) == [t |-> "object", fields |-> fields]
JUndefined == [t |-> "undefined"]

\* JavaScript truthiness of a JSON value
IsTruthy(v) ==
    CASE v.t \in {"null", "undefined"} -> FALSE
      [] v.t = "string" -> v.s # ""
      [] OTHER -> TRUE

\* value.key: undefined on a primitive or for an absent key
Member(v, key) ==
    IF v.t = "object" /\ key \in DOMAIN v.fields THEN v.fields[key] ELSE JUndefined

\* a || b
OrElse(a, b) == IF IsTruthy(a) THEN a ELSE b

\* errors?.length is truthy
HasLength(v) ==
    CASE v.t = "array" -> Len(v.items) > 0
      [] v.t = "string" -> v.s # ""
      [] OTHER -> FALSE

-----------------------------------------------------------------------------
(* The HTTP resolver: building the request (lines 116-163) *)

\* { ...options.operationHeaders, ...operationConfig.headers }: a key both have keeps
\* its place and takes the operation's value; the operation's other keys follow
MergeHeaders(global, own) ==
    LET ownValue(name) == own[CHOOSE j \in DOMAIN own : own[j].name = name].value
        ownNames == {own[j].name : j \in DOMAIN own}
        globalNames == {global[i].name : i \in DOMAIN global}
        kept == [i \in DOMAIN global |->
                    IF global[i].name \in ownNames
                    THEN Header(global[i].name, ownValue(global[i].name))
                    ELSE global[i]]
    IN  kept \o SelectSeq(own, LAMBDA h : h.name \notin globalNames)

\* lines 124-126
InterpolateHeaders(headers, data) ==
    [i \in DOMAIN headers |-> Header(headers[i].name, Interpolate(headers[i].value, data))]

\* Object.entries(headers).find(([key]) => key.toLowerCase() === 'content-type')
ContentTypeOf(headers) ==
    LET found == {i \in DOMAIN headers : ToLowerCase(headers[i].name) = "content-type"}
    IN  IF found = {} THEN <<>>
        ELSE headers[CHOOSE i \in found : \A j \in found : i <= j].value

\* contentType?.startsWith(prefix), the prefix being one token
StartsWith(string, prefix) == Len(string) > 0 /\ string[1] = prefix

\* new URL(fullPath).searchParams: the query a `?...` token of the path spells
SearchParams(fullPath) ==
    IF \E i \in DOMAIN fullPath : fullPath[i] = "?page=1&q=old"
    THEN [page |-> "1", q |-> "old"]
    ELSE <<>>

\* the URL without its query
PathOf(fullPath) == SelectSeq(fullPath, LAMBDA token : token # "?page=1&q=old")

BodylessMethods == {"GET", "HEAD", "CONNECT", "OPTIONS", "TRACE"}
BodyMethods == {"POST", "PUT", "PATCH", "DELETE"}
HTTPMethods == BodylessMethods \cup BodyMethods

NoBody == [format |-> "none"]

\* a switch that sends the input of every method in the body
PlaceInput_bodyForAll(httpMethod, headers, searchParams, input) ==
    IF StartsWith(ContentTypeOf(headers), "application/x-www-form-urlencoded")
    THEN [threw |-> FALSE, searchParams |-> searchParams,
          body |-> [format |-> "urlencoded", of |-> input]]
    ELSE [threw |-> FALSE, searchParams |-> searchParams,
          body |-> [format |-> "json", of |-> input]]

\* lines 134-163: the request for a truthy input, or the throw of the default case
PlaceInput(httpMethod, headers, searchParams, input) ==
    CASE httpMethod \in BodylessMethods ->
            \* urlObj.searchParams.set(key, value) for every key of the input
            [threw |-> FALSE, searchParams |-> input @@ searchParams, body |-> NoBody]
      [] httpMethod \in BodyMethods ->
            IF StartsWith(ContentTypeOf(headers), "application/x-www-form-urlencoded")
            THEN [threw |-> FALSE, searchParams |-> searchParams,
                  body |-> [format |-> "urlencoded", of |-> input]]
            ELSE [threw |-> FALSE, searchParams |-> searchParams,
                  body |-> [format |-> "json", of |-> input]]
      [] OTHER ->
            [threw |-> TRUE, searchParams |-> searchParams, body |-> NoBody]

\* the input argument after resolveDataByUnionInputType: absent, or an object
NoInput == [given |-> FALSE, value |-> <<>>]
Input(value) == [given |-> TRUE, value |-> value]

\* lines 116-163
BuildRequest(opts, closure, input, data) ==
    LET operationConfig == closure.operationConfig
        fullPath == Interpolate(StringAt(opts, "baseUrl"), data)
                        \o Interpolate(operationConfig.path, data)
        headers == InterpolateHeaders(
                        MergeHeaders(HeadersAt(opts, "operationHeaders"),
                                     HeadersAt(operationConfig, "headers")), data)
        placed == IF input.given
                  THEN PlaceInput(closure.httpMethod, headers, SearchParams(fullPath),
                                  input.value)
                  ELSE [threw |-> FALSE, searchParams |-> SearchParams(fullPath),
                        body |-> NoBody]
    IN  [threw |-> placed.threw,
         url |-> [path |-> PathOf(fullPath), searchParams |-> placed.searchParams],
         init |-> [method |-> closure.httpMethod, headers |-> headers,
                   body |-> placed.body]]

-----------------------------------------------------------------------------
(* The HTTP resolver: the outcome for a response (lines 172-218) *)

Returned(value) == [kind |-> "returned", value |-> value]
Threw(value) == [kind |-> "threw", value |-> value]

TypeError == [t |-> "TypeError"]
FetchError == [t |-> "FetchError"]

DefaultErrorMessage == <<Lit("message")>>

\* normalizeError (lines 185-195)
normalizeError(errorMessageTemplate, error) ==
    LET fields == IF error.t = "object" THEN error.fields ELSE <<>>
        errorMessage == Interpolate(errorMessageTemplate, fields)
    IN  IF error.t \in {"object", "array"} /\ errorMessage # <<>>
        THEN [t |-> "Error",
              \* Object.assign(errorObj, error): a `message` of the error wins
              message |-> IF "message" \in DOMAIN fields
                          THEN <<fields.message>> ELSE errorMessage,
              stack |-> Null,
              fields |-> fields]
        ELSE error

AggregateError(errors, message) ==
    [t |-> "AggregateError", errors |-> errors, message |-> message, stack |-> Null]

\* a fallback that gives the text whatever the return type
ParseFallback_alwaysText(returnType, responseText) == Returned(JText(responseText))

\* lines 174-183: the body is not JSON
ParseFallback(returnType, responseText) ==
    IF isScalarType(returnType)
    THEN Returned(JText(responseText))
    ELSE Threw(JText(responseText))

\* lines 196-218: responseJson.errors on null, and errors.map on a string, throw
DetectErrors(returnType, failed, errorMessageTemplate, responseJson) ==
    LET errors == OrElse(Member(responseJson, "errors"), Member(responseJson, "_errors"))
    IN  IF responseJson.t = "null" THEN Threw(TypeError)
        ELSE IF HasLength(errors) /\ ~DeclaresField(returnType, "errors")
        THEN IF errors.t = "array"
             THEN Returned(AggregateError(
                     [i \in DOMAIN errors.items |->
                         normalizeError(errorMessageTemplate, errors.items[i])],
                     failed))
             ELSE Threw(TypeError)
        ELSE IF IsTruthy(Member(responseJson, "error"))
                /\ ~DeclaresField(returnType, "error")
        THEN Returned(normalizeError(errorMessageTemplate, Member(responseJson, "error")))
        ELSE Returned(responseJson)

\* `${rootTypeName}.${fieldName} failed`
FailedMessage(rootTypeName, fieldName) == <<rootTypeName, ".", fieldName, " failed">>

-----------------------------------------------------------------------------
(* The HTTP resolver: an invocation *)

Inputs == {NoInput, Input(<<>>), Input([q |-> "new"]), Input([q |-> "new", sort |-> "asc"])}

ResolveData == {<<>>, [ct |-> "application/x-www-form-urlencoded"]}

\* response.text(): a body that JSON.parse rejects, or the JSON value it parses to
NotJSON(text) == [json |-> FALSE, text |-> text]
JSONBody(value) == [json |-> TRUE, value |-> value]

ErrorEntry1 == JRecord([message |-> "x"])
ErrorEntry2 == JText("y")

ErrorsValues ==
    {JArray(<<>>), JArray(<<ErrorEntry1>>), JArray(<<ErrorEntry1, ErrorEntry2>>),
     JText("oops"), JNull}

ErrorValues == {JRecord([message |-> "boom"]), JRecord([detail |-> "bad"]), JText("boom"), JNull}

ResponseObjects ==
    {JRecord(e @@ o @@ [data |-> JText("d")]) :
        e \in Opt("errors", ErrorsValues) \cup Opt("_errors", {JArray(<<ErrorEntry1>>)})
              \cup {[errors |-> JNull, _errors |-> JArray(<<ErrorEntry2>>)]},
        o \in Opt("error", ErrorValues)}

ResponseBodies ==
    {NotJSON("plain text")} \cup {JSONBody(v) : v \in ResponseObjects \cup {JNull, JText("ok")}}

StatusCodes == {200, 500}

\* field.resolve(root, args, context, info) up to the fetch (lines 115-164)
Invoke ==
    /\ pc = "done"
    /\ call = None
    /\ \E r \in RootTypeNames :
         \E f \in DOMAIN composer[r] :
           \E input \in Inputs, data \in ResolveData :
             LET closure == composer[r][f].resolve
                 built == BuildRequest(options, closure, input, data)
             IN  /\ closure.kind = "http"
                 /\ call' = [kind |-> "resolve", rootTypeName |-> r, fieldName |-> f,
                             input |-> input, data |-> data,
                             stage |-> IF built.threw THEN "done" ELSE "fetching"]
                 /\ request' = IF built.threw THEN None
                               ELSE [url |-> built.url, init |-> built.init]
                 /\ outcome' = IF built.threw
                               THEN Threw(Error(<<"Unknown method ", closure.httpMethod>>))
                               ELSE None
    /\ UNCHANGED <<buildVars, metadata, response, fetchCount>>

\* a fetch that is issued again after it has rejected
Fetch_reissuing ==
    /\ call # None
    /\ call.kind = "resolve"
    /\ call.stage = "fetching"
    /\ fetchCount < 2
    /\ fetchCount' = fetchCount + 1
    /\ \/ \E status \in StatusCodes, body \in ResponseBodies :
            /\ response' = [status |-> status, body |-> body]
            /\ call' = [call EXCEPT !.stage = "responded"]
            /\ UNCHANGED outcome
       \/ /\ outcome' = Threw(FetchError)
          /\ call' = [call EXCEPT !.stage = IF fetchCount = 0 THEN "fetching" ELSE "done"]
          /\ UNCHANGED response
    /\ UNCHANGED <<buildVars, metadata, request>>

\* lines 165-166: the fetch gives a response, or rejects
Fetch ==
    /\ call # None
    /\ call.kind = "resolve"
    /\ call.stage = "fetching"
    /\ fetchCount' = fetchCount + 1
    /\ \/ \E status \in StatusCodes, body \in ResponseBodies :
            /\ response' = [status |-> status, body |-> body]
            /\ call' = [call EXCEPT !.stage = "responded"]
            /\ UNCHANGED outcome
       \/ /\ outcome' = Threw(FetchError)
          /\ call' = [call EXCEPT !.stage = "done"]
          /\ UNCHANGED response
    /\ UNCHANGED <<buildVars, metadata, request>>

\* lines 172-218
Respond ==
    /\ call # None
    /\ call.kind = "resolve"
    /\ call.stage = "responded"
    /\ LET returnType == composer[call.rootTypeName][call.fieldName].type
           template == IF "errorMessage" \in DOMAIN options
                       THEN options.errorMessage ELSE DefaultErrorMessage
       IN  outcome' = IF response.body.json
                      THEN DetectErrors(returnType,
                                        FailedMessage(call.rootTypeName, call.fieldName),
                                        template, response.body.value)
                      ELSE ParseFallback(returnType, response.body.text)
    /\ call' = [call EXCEPT !.stage = "done"]
    /\ UNCHANGED <<buildVars, metadata, request, response, fetchCount>>

\* The pubsub pair the binder attaches (lines 101-110)

\* the flattened interpolation data { root, args, context, info, env } of an invocation
InterpolationData == {<<>>, [id |-> "42"], [id |-> "42", input |-> "7"]}

EventPayloads == {"created", "deleted"}

\* field.subscribe(root, args, context, info) of a field the binder gave a subscribe
Subscribe ==
    /\ pc = "done"
    /\ call = None
    /\ \E r \in RootTypeNames :
         \E f \in DOMAIN composer[r] :
           \E data \in InterpolationData :
             LET closure == composer[r][f].subscribe
                 pubsubTopic == Interpolate(StringAt(closure.operationConfig, "pubsubTopic"),
                                            data)
             IN  /\ closure.kind = "pubsub"
                 /\ call' = [kind |-> "subscribe", rootTypeName |-> r, fieldName |-> f,
                             data |-> data]
                 /\ outcome' = IF "pubsub" \in DOMAIN options
                               THEN [kind |-> "asyncIterator", topic |-> pubsubTopic]
                               ELSE Threw(TypeError)
    /\ UNCHANGED <<buildVars, metadata, request, response, fetchCount>>

\* field.resolve(root) of a field the binder bound to a topic
ResolveEvent ==
    /\ pc = "done"
    /\ call = None
    /\ \E r \in RootTypeNames :
         \E f \in DOMAIN composer[r] :
           \E root \in EventPayloads :
             /\ composer[r][f].resolve.kind = "pubsub"
             /\ call' = [kind |-> "resolveEvent", rootTypeName |-> r, fieldName |-> f,
                         root |-> root]
             /\ outcome' = Returned(JText(root))
    /\ UNCHANGED <<buildVars, metadata, request, response, fetchCount>>

BaseUrl == <<Lit("http://api")>>

ContentTypeHeaders ==
    {<<>>,
     <<Header("Content-Type", <<Lit("application/x-www-form-urlencoded")>>)>>,
     <<Header("content-type", <<Lit("application/x-www-form-urlencoded"),
                                Lit("; charset=utf-8")>>)>>,
     <<Header("CONTENT-TYPE", <<Lit("application/json")>>)>>,
     <<Header("Content-Type", <<Var("ct")>>)>>,
     <<Header("Accept", <<Lit("application/x-www-form-urlencoded")>>)>>}

\* one HTTP operation: every method with every header set and path, and every return
\* type and error template on a GET
ResolveOptions ==
    {[baseUrl |-> BaseUrl,
      operationHeaders |-> global,
      operations |-> <<[field |-> FieldName(1)] @@ kind @@
                       [path |-> path, headers |-> own, responseTypeName |-> "User"]>>] :
        kind \in Merge([type : {"query"}], [method : HTTPMethods \cup {"FOO"}])
                   \cup [type : {"query", "mutation"}],
        path \in {<<Lit("/users")>>, <<Lit("/users"), Lit("?page=1&q=old")>>},
        own \in ContentTypeHeaders,
        global \in {<<>>,
                    <<Header("Content-Type", <<Lit("application/json")>>)>>}}
      \cup
    {e @@ [baseUrl |-> BaseUrl,
           operations |-> <<[field |-> FieldName(1), type |-> "query",
                             path |-> <<Lit("/users")>>, responseTypeName |-> "User"]
                            @@ returns>>] :
        e \in Opt("errorMessage", {<<Var("detail")>>}),
        returns \in Opt("responseSchema", {"WithErrors.json", "WithError.json", "Text.json",
                                          "Users.json", "User.json"})}

InitResolve ==
    /\ entry = "JSONSchemaLoader"
    /\ options \in ResolveOptions
    /\ pc = "done"
    /\ idx = Len(options.operations) + 1
    /\ finalJsonSchema = [by |-> "dereferenceObject", of |-> EmptySchema]
    /\ pipelineCalls = <<>>
    /\ store = None
    /\ composer = AttachFrom(ComposerFor(options.operations, {}), options, 1).composer
    /\ unhandled = None
    /\ result = [kind |-> "schema", schema |-> composer]
    /\ metadata = None
    /\ IdleCall

NextResolve ==
    \/ Invoke
    \/ Fetch
    \/ Respond

SpecResolve == InitResolve /\ [][NextResolve]_vars

-----------------------------------------------------------------------------
(* The binder and the pubsub pair on their own *)

\* operations whose strings carry placeholders
AttachShapes ==
    Merge([type : {"query"}],
          Merge([path : {<<Lit("/users")>>, <<Lit("/users/"), Var("id")>>,
                         <<Lit("/users/"), Var("input")>>}],
                Merge(Merge([requestTypeName : {"UserFilter"}],
                            Opt("requestSchema", {"UserFilter.json"})),
                      Opt("argTypeMap", {[id |-> "String"], [input |-> "Int"]}))))
      \cup {[type |-> "mutation", path |-> <<Lit("/users")>>,
             headers |-> <<Header("Authorization", <<Lit("Bearer "), Var("token")>>)>>]}
      \cup Merge([type : {"subscription"}],
                 Merge(Opt("pubsubTopic", {<<Lit("users")>>,
                                           <<Lit("users/"), VarDefault("id", "all")>>}),
                       Opt("pubSubTopic", {<<Lit("users")>>}))
                    \ {<<>>})

AttachOptions(operations) ==
    Merge({[operations |-> operations]},
          Merge(Opt("baseUrl", {<<Lit("http://api")>>}),
                Opt("operationHeaders", {<<Header("Accept", <<Var("accept")>>)>>})))

\* the options of getMeshSource (lines 33-43) hold no pubsub; a caller of
\* JSONSchemaLoader may pass one
InitAttach ==
    /\ entry \in {"JSONSchemaLoader", "getMeshSource"}
    /\ \E operations \in OperationLists(AttachShapes) :
         \E opts \in AttachOptions(operations) :
            options \in {opts} \cup (IF entry = "JSONSchemaLoader"
                                     THEN {[pubsub |-> "pubsub"] @@ opts} ELSE {})
    /\ pc = "compose"
    /\ idx = Len(options.operations) + 1
    /\ finalJsonSchema = [by |-> "dereferenceObject", of |-> EmptySchema]
    /\ pipelineCalls = <<>>
    /\ store = None
    /\ composer = EmptyComposer
    /\ unhandled = None
    /\ result = None
    /\ metadata = None
    /\ IdleCall

NextAttach ==
    \/ GetComposer
    \/ AddExecutionLogic
    \/ BuildSchema
    \/ Subscribe
    \/ ResolveEvent

SpecAttach == InitAttach /\ [][NextAttach]_vars

-----------------------------------------------------------------------------
(* getOperationMetadata on its own *)

\* HTTP operations are queries or mutations; pubsub operations are subscriptions that
\* carry the topic under `pubsubTopic`, under `pubSubTopic`, or under both
MetaShapes ==
    Merge([type : {"query", "mutation", "Mutation"}],
          Merge(Opt("method", HTTPMethods), Opt("path", {<<Lit("/users")>>})))
      \cup Merge([type : {"subscription"}],
                 Merge(Opt("pubsubTopic", {<<Lit("users")>>}),
                       Opt("pubSubTopic", {<<Lit("users")>>}))
                    \ {<<>>})

InitMeta ==
    /\ entry = "JSONSchemaLoader"
    /\ \E shape \in MetaShapes :
         options = [operations |-> <<[field |-> FieldName(1)] @@ shape>>]
    /\ pc = "start"
    /\ idx = 0
    /\ finalJsonSchema = None
    /\ pipelineCalls = <<>>
    /\ store = None
    /\ composer = EmptyComposer
    /\ unhandled = None
    /\ result = None
    /\ metadata = None
    /\ IdleCall

NextMeta == GetOperationMetadata

SpecMeta == InitMeta /\ [][NextMeta]_vars

-----------------------------------------------------------------------------
(* Properties of the schema-build call *)

RECURSIVE Unwrapped(_)
\* the composite schema inside the results of the library steps
Unwrapped(schema) == IF "by" \in DOMAIN schema THEN Unwrapped(schema.of) ELSE schema

HasThrown(name) == \E i \in DOMAIN pipelineCalls : pipelineCalls[i] = Called(name, FALSE)
WasCalled(name) == \E i \in DOMAIN pipelineCalls : pipelineCalls[i].call = name

NumberOfCalls(name) == Cardinality({i \in DOMAIN pipelineCalls : pipelineCalls[i].call = name})

HasKey(obj, key) == key \in DOMAIN obj

\* C1: an operation carrying `pubsubTopic` gets rootTypeName Subscription and
\* operationType subscription; any other operation gets Mutation when its declared
\* type is mutation and Query in every other case.
C1_RootTypeSelection ==
    metadata # None =>
        LET operationConfig == options.operations[1]
        IN  IF HasKey(operationConfig, "pubsubTopic")
            THEN /\ metadata.rootTypeName = "Subscription"
                 /\ metadata.operationType = "subscription"
            ELSE metadata.rootTypeName =
                    (IF ToLowerCase(operationConfig.type) = "mutation"
                     THEN "Mutation" ELSE "Query")

\* the synthesizer loop of buildFinalJSONSchema has handled every operation
Synthesized ==
    /\ ~HasKey(options, "finalSchema")
    /\ pc \notin {"start", "synthesize", "failed"}

\* the response-side entry the operation has in the composite schema
ResponseEntry(operationConfig) ==
    LET meta == getOperationMetadata(operationConfig)
        properties == Unwrapped(finalJsonSchema).properties
    IN  IF HasKey(properties, meta.operationType)
           /\ HasKey(properties[meta.operationType].properties, meta.fieldName)
        THEN properties[meta.operationType].properties[meta.fieldName]
        ELSE None

\* the number of sample reads a list of operations needs when none fails
SamplesToRead(operations) ==
    Cardinality({i \in DOMAIN operations :
                    /\ ~HasKey(operations[i], "responseSchema")
                    /\ HasKey(operations[i], "responseSample")})
      + Cardinality({i \in DOMAIN operations :
                        /\ ~HasKey(operations[i], "requestSchema")
                        /\ HasKey(operations[i], "requestSample")})

\* C10: once the synthesizer has run, every operation has a response-side entry at
\* properties[operationType].properties[fieldName]: { $ref: responseSchema } when
\* responseSchema is given (and then its sample is not read), the schema inferred from
\* the sample when only responseSample is given, and the placeholder of type object
\* with the responseTypeName title and nothing else when neither is given.
C10_ResponseEntries ==
    Synthesized =>
        /\ \A i \in DOMAIN options.operations :
             LET operationConfig == options.operations[i]
                 entryOf == ResponseEntry(operationConfig)
             IN  /\ entryOf # None
                 /\ HasKey(operationConfig, "responseSchema") =>
                        entryOf = [ref |-> operationConfig.responseSchema]
                 /\ (~HasKey(operationConfig, "responseSchema")
                        /\ HasKey(operationConfig, "responseSample")) =>
                        entryOf = [title |-> operationConfig.responseTypeName]
                                    @@ toJsonSchema(SampleContent(operationConfig.responseSample))
                 /\ (~HasKey(operationConfig, "responseSchema")
                        /\ ~HasKey(operationConfig, "responseSample")) =>
                        entryOf = [type |-> "object",
                                   title |-> operationConfig.responseTypeName]
        /\ NumberOfCalls("readFileOrUrl") = SamplesToRead(options.operations)

\* two operations on one root type, the first with both responseSchema and
\* responseSample, the second with a sample only, after the synthesizer has run
C10_Witness ==
    /\ Synthesized
    /\ Len(options.operations) >= 2
    /\ HasKey(options.operations[1], "responseSchema")
    /\ HasKey(options.operations[1], "responseSample")
    /\ ~HasKey(options.operations[2], "responseSchema")
    /\ HasKey(options.operations[2], "responseSample")
    /\ options.operations[1].type = options.operations[2].type

PipelineSteps == {"dereferenceObject", "healJSONSchema", "referenceJSONSchema"}

\* the message of the rejection names the field of the operation
NamesField(message, fieldName) == \E i \in DOMAIN message : message[i] = fieldName

\* C9 as stated: a failed sample read rejects the call with an error that identifies
\* the operation's field name and carries the cause, and no pipeline step is invoked.
C9_ReadFailureNamesField ==
    HasThrown("readFileOrUrl") =>
        /\ result.kind = "rejected"
        /\ NamesField(result.error.message, options.operations[idx].field)
        /\ \E cause \in ReadFailures : NamesField(result.error.message, cause)
        /\ \A step \in PipelineSteps : ~WasCalled(step)

\* C9 amended: a failed sample read rejects the call with an error whose message is
\* `responseSample - <cause>` or `requestSample:<sample> cannot be read - <cause>`
\* (it names the kind of sample, and for a request sample the sample, not the
\* operation's field), and no pipeline step is invoked.
C9_ReadFailureIsFatal ==
    HasThrown("readFileOrUrl") =>
        /\ result.kind = "rejected"
        /\ \E cause \in ReadFailures :
              \/ result.error.message = <<"responseSample - ", cause>>
              \/ /\ HasKey(options.operations[idx], "requestSample")
                 /\ result.error.message =
                        <<"requestSample:", options.operations[idx].requestSample,
                          " cannot be read - ", cause>>
        /\ \A step \in PipelineSteps : ~WasCalled(step)

\* the read of the second operation's request sample has failed
C9_Witness ==
    /\ HasThrown("readFileOrUrl")
    /\ idx = 2
    /\ result.kind = "rejected"
    /\ Head(result.error.message) = "requestSample:"

\* some stage of the build call has failed
StageFailed == (\E i \in DOMAIN pipelineCalls : pipelineCalls[i].threw) \/ unhandled # None

\* C7: when any stage of the build call fails (synthesis, the pipeline, composition,
\* attaching arguments and resolvers) the call gives no schema, and the store holds
\* nothing but a schema the whole pipeline has produced.
C7_FailureIsFatal ==
    /\ StageFailed => result.kind # "schema"
    /\ store # None => (HasKey(store, "by") /\ store.by = "referenceJSONSchema")

-----------------------------------------------------------------------------
(* Properties of the binder *)

\* the binder has run (to its end or to its throw)
BinderHasRun == pc \in {"buildSchema", "done"}

\* C6: after the binder has run, the field of every pubsub operation (one carrying
\* `pubsubTopic`) is on Subscription with a subscribe and a resolve bound to the
\* operation; a subscribe invocation gives the pubsub subsystem's iterator for exactly
\* the interpolated topic, and a resolve invocation gives the payload unchanged.
C6_PubSubBinding ==
    /\ (BinderHasRun /\ unhandled = None) =>
          \A i \in DOMAIN options.operations :
             LET operationConfig == options.operations[i]
             IN  HasKey(operationConfig, "pubsubTopic") =>
                    /\ HasKey(composer["Subscription"], operationConfig.field)
                    /\ composer["Subscription"][operationConfig.field].subscribe
                          = [kind |-> "pubsub", operationConfig |-> operationConfig]
                    /\ composer["Subscription"][operationConfig.field].resolve
                          = [kind |-> "pubsub", operationConfig |-> operationConfig]
    /\ (call # None /\ call.kind = "subscribe") =>
          \E i \in DOMAIN options.operations :
             /\ options.operations[i].field = call.fieldName
             /\ HasKey(options.operations[i], "pubsubTopic")
             /\ outcome = [kind |-> "asyncIterator",
                           topic |-> Interpolate(options.operations[i].pubsubTopic,
                                                 call.data)]
    /\ (call # None /\ call.kind = "resolveEvent") =>
          outcome = Returned(JText(call.root))

\* C8: the planner only extends: every argument a field has before the binder runs is
\* still there afterwards with the same definition, and an operation whose strings hold
\* no placeholder gets no argument.
C8_PlannerOnlyExtends ==
    BinderHasRun =>
        \A i \in DOMAIN options.operations :
           LET operationConfig == options.operations[i]
               meta == getOperationMetadata(operationConfig)
               before == BaseArgs(operationConfig)
           IN  HasKey(composer[meta.rootTypeName], meta.fieldName) =>
                  LET after == composer[meta.rootTypeName][meta.fieldName].args
                  IN  /\ \A a \in DOMAIN before : HasKey(after, a) /\ after[a] = before[a]
                      /\ (\A t \in InterpolationStrings(options, operationConfig) :
                             PlaceholderNames(t) = {})
                            => after = before

-----------------------------------------------------------------------------
(* Properties of the HTTP resolver *)

Resolving == call # None /\ call.kind = "resolve"

\* the invocation has its outcome for the response it got
Responded == Resolving /\ call.stage = "done" /\ response # None

\* the field the invocation is on, and the closure bound to it
CalledField == composer[call.rootTypeName][call.fieldName]

\* the aggregated error of all entries of an array of errors
Aggregated(errors) ==
    AggregateError([i \in DOMAIN errors.items |->
                       normalizeError(IF HasKey(options, "errorMessage")
                                      THEN options.errorMessage ELSE DefaultErrorMessage,
                                      errors.items[i])],
                   <<call.rootTypeName, ".", call.fieldName, " failed">>)

Normalized(error) ==
    normalizeError(IF HasKey(options, "errorMessage")
                   THEN options.errorMessage ELSE DefaultErrorMessage, error)

\* C2 as stated: for a body that parses as JSON: an aggregated error of all entries
\* when the body has an `errors` array and the return type declares no `errors`;
\* else the normalized `error` when the body has an `error` field and the return type
\* declares no `error`; else the parsed body unchanged.
C2_ErrorDetectionAsStated ==
    (Responded /\ response.body.json) =>
        LET responseJson == response.body.value
            returnType == CalledField.type
        IN  IF Member(responseJson, "errors").t = "array"
               /\ ~DeclaresField(returnType, "errors")
            THEN outcome = Returned(Aggregated(Member(responseJson, "errors")))
            ELSE IF Member(responseJson, "error").t # "undefined"
                    /\ ~DeclaresField(returnType, "error")
            THEN outcome = Returned(Normalized(Member(responseJson, "error")))
            ELSE outcome = Returned(responseJson)

\* C2, the part of it the resolver keeps: for a body that parses to a JSON value other
\* than null, with E the body's `errors` when that is truthy and its `_errors`
\* otherwise, and E an array if it is truthy: an aggregated error of all entries of E
\* when E is a non-empty array and the return type declares no `errors`; else the
\* normalized `error` when the body's `error` is truthy and the return type declares
\* no `error`; else the parsed body unchanged. A body of `null`, and a truthy E that
\* is no array, end in a TypeError instead (C2_ErrorDetectionAsStated fails there).
C2_ErrorDetection ==
    (Responded /\ response.body.json /\ response.body.value.t # "null") =>
        LET responseJson == response.body.value
            returnType == CalledField.type
            listed == IF IsTruthy(Member(responseJson, "errors"))
                      THEN Member(responseJson, "errors")
                      ELSE Member(responseJson, "_errors")
        IN  (IsTruthy(listed) => listed.t = "array") =>
               IF listed.t = "array" /\ listed.items # <<>>
                  /\ ~DeclaresField(returnType, "errors")
               THEN outcome = Returned(Aggregated(listed))
               ELSE IF IsTruthy(Member(responseJson, "error"))
                       /\ ~DeclaresField(returnType, "error")
               THEN outcome = Returned(Normalized(Member(responseJson, "error")))
               ELSE outcome = Returned(responseJson)

\* a body with two `errors` entries and an `error`, on a return type that declares
\* `errors` only, has given the normalized `error`
C2_Witness ==
    /\ Responded
    /\ response.body.json
    /\ Member(response.body.value, "errors") = JArray(<<ErrorEntry1, ErrorEntry2>>)
    /\ Member(response.body.value, "error") = JRecord([message |-> "boom"])
    /\ DeclaresField(CalledField.type, "errors")
    /\ outcome.kind = "returned"
    /\ outcome.value.t = "Error"

\* C3: for a body that is not JSON the resolver gives the raw text when the return
\* type is a scalar, and throws the raw text itself when it is not.
C3_NonJSONBody ==
    (Responded /\ ~response.body.json) =>
        IF CalledField.type.kind = "scalar"
        THEN outcome = Returned(JText(response.body.text))
        ELSE outcome = Threw(JText(response.body.text))

\* a body that is not JSON on a field whose type is not a scalar has been thrown
C3_Witness ==
    /\ Responded
    /\ ~response.body.json
    /\ CalledField.type.kind = "object"
    /\ outcome = Threw(JText("plain text"))

\* the query the URL has before the input is placed
QueryOfPath ==
    IF \E i \in DOMAIN CalledField.resolve.operationConfig.path :
          CalledField.resolve.operationConfig.path[i] = Lit("?page=1&q=old")
    THEN [page |-> "1", q |-> "old"]
    ELSE <<>>

\* the first header named content-type, whatever its case, starts with the form type
FormEncoded(headers) ==
    \E i \in DOMAIN headers :
       /\ ToLowerCase(headers[i].name) = "content-type"
       /\ \A j \in 1..(i - 1) : ToLowerCase(headers[j].name) # "content-type"
       /\ headers[i].value # <<>>
       /\ Head(headers[i].value) = "application/x-www-form-urlencoded"

C5_UnknownMethodRaises ==
    (Resolving /\ CalledField.resolve.httpMethod \notin HTTPMethods) =>
        /\ outcome = Threw(Error(<<"Unknown method ", CalledField.resolve.httpMethod>>))
        /\ fetchCount = 0

\* the fetch of the invocation has rejected
FetchFailed == Resolving /\ call.stage = "done" /\ request # None /\ response = None

\* C11: an invocation issues at most one fetch; when the fetch rejects, the invocation
\* ends with that rejection and the request is not issued again; when a response has
\* come, the outcome is what the body and the return type give, whatever the status
\* code (so two responses with one body and two status codes end alike).
C11_SingleFetch ==
    /\ fetchCount <= 1
    /\ Resolving =>
          /\ (call.stage = "fetching") => (fetchCount = 0 /\ outcome = None)
          /\ (call.stage \in {"responded", "done"} /\ request # None) => fetchCount = 1
    /\ FetchFailed => outcome = Threw(FetchError)
    /\ Responded =>
          \A status \in StatusCodes :
             LET answer == [response EXCEPT !.status = status]
                 returnType == CalledField.type
             IN  outcome = IF answer.body.json
                           THEN DetectErrors(returnType,
                                             FailedMessage(call.rootTypeName, call.fieldName),
                                             IF HasKey(options, "errorMessage")
                                             THEN options.errorMessage
                                             ELSE DefaultErrorMessage,
                                             answer.body.value)
                           ELSE ParseFallback(returnType, answer.body.text)

\* a response of status 500 whose body is JSON without errors has been returned as
\* data, after one fetch
C11_Witness ==
    /\ Responded
    /\ response.status = 500
    /\ response.body.json
    /\ response.body.value = JRecord([data |-> JText("d")])
    /\ outcome = Returned(response.body.value)
    /\ fetchCount = 1

====
